---- MODULE Spec2Model ----
(***************************************************************************)
(* Model of the 5G stability reporter: the KPI calculator, the evaluator,  *)
(* the processing pipeline of ProcessingThread.run, the two report writers *)
(* and the controls of MainWindow.                                         *)
(*                                                                         *)
(* Floats are modelled as exact rationals [t |-> "num", n, d] with d > 0   *)
(* in lowest terms; Python's None and the float NaN are distinct values.   *)
(***************************************************************************)
EXTENDS Integers, Sequences, FiniteSets, TLC

VARIABLES
    fn,           \* pure-function harness: the function under call, or "returned:<name>"
    args,         \* pure-function harness: the arguments of the call
    ret,          \* pure-function harness: the returned value
    pc,           \* ProcessingThread.run: the step about to execute
    archive,      \* the ZIP file at zip_path
    df,           \* run: the loaded table
    df_clean,     \* run: the cleaned table
    df_parsed,    \* run: the table with TOWERID and DATE
    reports,      \* run: the list of TowerReport
    output_file,  \* the file at output_path
    events,       \* the signals emitted so far, in order
    window        \* MainWindow: zip_path, the two buttons, the thread, the log

hvars == <<fn, args, ret>>

pvars == <<pc, archive, df, df_clean, df_parsed, reports, output_file, events, window>>

vars ==
    <<fn, args, ret, pc, archive, df, df_clean, df_parsed, reports, output_file, events,
      window>>

(***************************************************************************)
(* Numbers                                                                 *)
(***************************************************************************)
None == [t |-> "None", n |-> 0, d |-> 1]

NaN == [t |-> "nan", n |-> 0, d |-> 1]

Abs(x) == IF x < 0 THEN -x ELSE x

RECURSIVE GCD(_, _)
GCD(a, b) == IF b = 0 THEN a ELSE GCD(b, a % b)

\* the float n/d (d # 0), sign carried by the numerator, in lowest terms
Rat(n, d) ==
    LET g == GCD(Abs(n), Abs(d))
        s == IF d < 0 THEN -1 ELSE 1
    IN  [t |-> "num", n |-> (s * n) \div g, d |-> Abs(d) \div g]

\* float comparison: any comparison with NaN is False
Ge(a, b) == a.t = "num" /\ b.t = "num" /\ a.n * b.d >= b.n * a.d

Le(a, b) == a.t = "num" /\ b.t = "num" /\ a.n * b.d <= b.n * a.d

\* pd.isna: True for None and for NaN
IsNa(x) == x.t \in {"None", "nan"}

(***************************************************************************)
(* utils/constants.py : KPIThreshold                                       *)
(***************************************************************************)
SGNB_ADD_SUCCESS_RATE_MIN == Rat(95, 1)

SGNB_DROP_RATE_MAX == Rat(5, 1)

DL_THROUGHPUT_MIN == Rat(5, 1)

UL_THROUGHPUT_MIN == Rat(15, 10)

DL_SPECTRUM_EFFICIENCY_MIN == Rat(9, 10)

(***************************************************************************)
(* core/kpi_calculator.py : KPICalculator.safe_divide                      *)
(***************************************************************************)
\* mutant: the multiplier is dropped from the result
safe_divide_noscale(num, den, multiply) ==
    IF IsNa(num) \/ IsNa(den) \/ den.n = 0
    THEN None
    ELSE Rat(num.n * den.d, num.d * den.n)

safe_divide(num, den, multiply) ==
    IF IsNa(num) \/ IsNa(den) \/ den.n = 0
    THEN None
    ELSE Rat(num.n * den.d * multiply.n, num.d * den.n * multiply.d)

(***************************************************************************)
(* core/evaluator.py : Evaluator                                           *)
(***************************************************************************)
\* mutant: a missing value is a failure
evaluate_kpi_missing_fails(value, threshold, compare) ==
    IF value = None
    THEN "FAIL"
    ELSE IF compare = ">="
         THEN (IF Ge(value, threshold) THEN "PASS" ELSE "FAIL")
         ELSE (IF Le(value, threshold) THEN "PASS" ELSE "FAIL")

\* mutant: the comparisons are strict
evaluate_kpi_strict(value, threshold, compare) ==
    IF value = None
    THEN "N/A"
    ELSE IF compare = ">="
         THEN (IF Ge(value, threshold) /\ value # threshold THEN "PASS" ELSE "FAIL")
         ELSE (IF Le(value, threshold) /\ value # threshold THEN "PASS" ELSE "FAIL")

evaluate_kpi(value, threshold, compare) ==
    IF value = None
    THEN "N/A"
    ELSE IF compare = ">="
         THEN (IF Ge(value, threshold) THEN "PASS" ELSE "FAIL")
         ELSE (IF Le(value, threshold) THEN "PASS" ELSE "FAIL")

Metrics ==
    {"sgnb_add_success_rate", "sgnb_drop_rate", "dl_user_throughput",
     "ul_user_throughput", "dl_spectrum_efficiency"}

\* mutant: UL throughput is checked against the DL threshold
KPIStatusOfWrongThreshold(kpi_values) ==
    [sgnb_add_success_rate |->
        evaluate_kpi(kpi_values.sgnb_add_success_rate, SGNB_ADD_SUCCESS_RATE_MIN, ">="),
     sgnb_drop_rate |->
        evaluate_kpi(kpi_values.sgnb_drop_rate, SGNB_DROP_RATE_MAX, "<="),
     dl_user_throughput |->
        evaluate_kpi(kpi_values.dl_user_throughput, DL_THROUGHPUT_MIN, ">="),
     ul_user_throughput |->
        evaluate_kpi(kpi_values.ul_user_throughput, DL_THROUGHPUT_MIN, ">="),
     dl_spectrum_efficiency |->
        evaluate_kpi(kpi_values.dl_spectrum_efficiency, DL_SPECTRUM_EFFICIENCY_MIN, ">=")]

\* mutant: the drop rate of a report without an addition rate is not judged
KPIStatusOfCoupled(kpi_values) ==
    [sgnb_add_success_rate |->
        evaluate_kpi(kpi_values.sgnb_add_success_rate, SGNB_ADD_SUCCESS_RATE_MIN, ">="),
     sgnb_drop_rate |->
        IF kpi_values.sgnb_add_success_rate = None
        THEN "N/A"
        ELSE evaluate_kpi(kpi_values.sgnb_drop_rate, SGNB_DROP_RATE_MAX, "<="),
     dl_user_throughput |->
        evaluate_kpi(kpi_values.dl_user_throughput, DL_THROUGHPUT_MIN, ">="),
     ul_user_throughput |->
        evaluate_kpi(kpi_values.ul_user_throughput, UL_THROUGHPUT_MIN, ">="),
     dl_spectrum_efficiency |->
        evaluate_kpi(kpi_values.dl_spectrum_efficiency, DL_SPECTRUM_EFFICIENCY_MIN, ">=")]

\* the KPIStatus built by evaluate_all
KPIStatusOf(kpi_values) ==
    [sgnb_add_success_rate |->
        evaluate_kpi(kpi_values.sgnb_add_success_rate, SGNB_ADD_SUCCESS_RATE_MIN, ">="),
     sgnb_drop_rate |->
        evaluate_kpi(kpi_values.sgnb_drop_rate, SGNB_DROP_RATE_MAX, "<="),
     dl_user_throughput |->
        evaluate_kpi(kpi_values.dl_user_throughput, DL_THROUGHPUT_MIN, ">="),
     ul_user_throughput |->
        evaluate_kpi(kpi_values.ul_user_throughput, UL_THROUGHPUT_MIN, ">="),
     dl_spectrum_efficiency |->
        evaluate_kpi(kpi_values.dl_spectrum_efficiency, DL_SPECTRUM_EFFICIENCY_MIN, ">=")]

\* mutant: PASS only if all five statuses are PASS
OverallOfAllPass(status) ==
    IF \A m \in Metrics : status[m] = "PASS" THEN "PASS" ELSE "FAIL"

\* overall = "FAIL" if "FAIL" in statuses else "PASS"
OverallOf(status) ==
    IF \E m \in Metrics : status[m] = "FAIL" THEN "FAIL" ELSE "PASS"

evaluate_all(kpi_values) ==
    LET status == KPIStatusOf(kpi_values)
    IN  [status |-> status, overall |-> OverallOf(status)]

(***************************************************************************)
(* Text.  A string is a sequence of one-character strings; the empty CSV   *)
(* field is read by pandas as the float NaN, which str() turns into "nan". *)
(***************************************************************************)
CellNaN == <<"<NaN>">>

Str(cell) == IF cell = CellNaN THEN <<"n", "a", "n">> ELSE cell

Upper ==
    {"A", "B", "C", "D", "E", "F", "G", "H", "I", "J", "K", "L", "M",
     "N", "O", "P", "Q", "R", "S", "T", "U", "V", "W", "X", "Y", "Z"}

Digits == {"0", "1", "2", "3", "4", "5", "6", "7", "8", "9"}

\* the characters of the model in code-point order
CodePoints ==
    <<" ", "%", ",", "-", "/", "0", "1", "2", "3", "4", "5", "6", "7", "8", "9", ":",
      "A", "B", "C", "D", "E", "F", "G", "H", "I", "J", "K", "L", "M",
      "N", "O", "P", "Q", "R", "S", "T", "U", "V", "W", "X", "Y", "Z",
      "_", "a", "b", "c", "d", "e", "f", "g", "h", "i", "j", "k", "l", "m",
      "n", "o", "p", "q", "r", "s", "t", "u", "v", "w", "x", "y", "z">>

Ord(c) == CHOOSE i \in 1..Len(CodePoints) : CodePoints[i] = c

\* Python's str < str
RECURSIVE StrLess(_, _)
StrLess(a, b) ==
    IF b = <<>> THEN FALSE
    ELSE IF a = <<>> THEN TRUE
    ELSE IF Head(a) = Head(b) THEN StrLess(Tail(a), Tail(b))
    ELSE Ord(Head(a)) < Ord(Head(b))

\* str.endswith
EndsWith(s, suffix) ==
    /\ Len(suffix) <= Len(s)
    /\ SubSeq(s, Len(s) - Len(suffix) + 1, Len(s)) = suffix

\* str.replace(ch, "", regex=False)
RECURSIVE RemoveChar(_, _)
RemoveChar(s, ch) ==
    IF s = <<>> THEN <<>>
    ELSE IF Head(s) = ch THEN RemoveChar(Tail(s), ch)
    ELSE <<Head(s)>> \o RemoveChar(Tail(s), ch)

(***************************************************************************)
(* utils/constants.py : ColumnIndex, TOWERID_PATTERN                       *)
(***************************************************************************)
BEGIN_TIME == 0

MANAGED_ELEMENT_NAME == 6

SN_ADDITION_NUM == 21

ABNORMAL_SN_RELEASE_NUM == 24

DL_SE_MAPPING_NUM == 35

DL_UE_THROUGHPUT_NUM == 90

UL_UE_THROUGHPUT_NUM == 91

SN_ADDITION_DEN == 22

ABNORMAL_SN_RELEASE_DEN == 25

DL_SE_MAPPING_DEN == 36

DL_UE_THROUGHPUT_DEN == 121

UL_UE_THROUGHPUT_DEN == 122

\* the positions ProcessingThread.run hands to the cleaner
numeric_cols ==
    {SN_ADDITION_NUM, SN_ADDITION_DEN,
     ABNORMAL_SN_RELEASE_NUM, ABNORMAL_SN_RELEASE_DEN,
     DL_UE_THROUGHPUT_NUM, DL_UE_THROUGHPUT_DEN,
     UL_UE_THROUGHPUT_NUM, UL_UE_THROUGHPUT_DEN,
     DL_SE_MAPPING_NUM, DL_SE_MAPPING_DEN}

\* the positions the program reads; the other columns of a table are never
\* looked at and are not carried by the model
UsedCols == {BEGIN_TIME, MANAGED_ELEMENT_NAME} \cup numeric_cols

\* the used positions that exist in a table of ncols columns
ColsOf(ncols) == {c \in UsedCols : c < ncols}

\* end of the maximal run of characters of class cls starting at position i
RECURSIVE RunEnd(_, _, _)
RunEnd(s, i, cls) ==
    IF i <= Len(s) /\ s[i] \in cls THEN RunEnd(s, i + 1, cls) ELSE i

\* TOWERID_PATTERN [A-Z]+-[A-Z]+-[A-Z]+-\d+ matched at position i: the
\* position after the match, or 0 when there is no match at i.  Each
\* quantified class is followed by a character outside it, so the greedy
\* match takes the maximal run.
MatchAt(s, i) ==
    LET a == RunEnd(s, i, Upper)
        b == RunEnd(s, a + 1, Upper)
        c == RunEnd(s, b + 1, Upper)
        e == RunEnd(s, c + 1, Digits)
    IN  IF /\ a > i /\ a <= Len(s) /\ s[a] = "-"
           /\ b > a + 1 /\ b <= Len(s) /\ s[b] = "-"
           /\ c > b + 1 /\ c <= Len(s) /\ s[c] = "-"
           /\ e > c + 1
        THEN e
        ELSE 0

UNKNOWN == <<"U", "N", "K", "N", "O", "W", "N">>

(***************************************************************************)
(* core/data_parser.py : DataParser                                        *)
(***************************************************************************)
\* mutant: re.match, the pattern anchored at the start of the text
extract_tower_id_anchored(managed_element_name) ==
    LET s == Str(managed_element_name)
    IN  IF s # <<>> /\ MatchAt(s, 1) # 0
        THEN SubSeq(s, 1, MatchAt(s, 1) - 1)
        ELSE UNKNOWN

\* mutant: the match loses its last character
extract_tower_id_short(managed_element_name) ==
    LET s == Str(managed_element_name)
        starts == {i \in 1..Len(s) : MatchAt(s, i) # 0}
    IN  IF starts = {}
        THEN UNKNOWN
        ELSE LET i == CHOOSE x \in starts : \A y \in starts : x <= y
             IN  SubSeq(s, i, MatchAt(s, i) - 2)

\* re.search: the leftmost match
extract_tower_id(managed_element_name) ==
    LET s == Str(managed_element_name)
        starts == {i \in 1..Len(s) : MatchAt(s, i) # 0}
    IN  IF starts = {}
        THEN UNKNOWN
        ELSE LET i == CHOOSE x \in starts : \A y \in starts : x <= y
             IN  SubSeq(s, i, MatchAt(s, i) - 1)

\* a calendar date is <<year, month, day>>; NaT is pandas' missing timestamp
NaT == <<0, 0, 0>>

FallbackDate == <<2026, 1, 1>>

\* the value of the digit string s[i .. j-1]
RECURSIVE DigitsValue(_, _, _)
DigitsValue(s, i, j) ==
    IF j <= i THEN 0
    ELSE 10 * DigitsValue(s, i, j - 1) + (Ord(s[j - 1]) - Ord("0"))

IsLeap(y) == (y % 4 = 0 /\ y % 100 # 0) \/ y % 400 = 0

DaysInMonth(y, m) ==
    IF m = 2 THEN (IF IsLeap(y) THEN 29 ELSE 28)
    ELSE IF m \in {4, 6, 9, 11} THEN 30 ELSE 31

\* the strptime directives: admitted digit counts and values
FieldLens(f) == IF f = "Y" THEN {4} ELSE {1, 2}

FieldOk(f, v) ==
    CASE f = "m" -> v \in 1..12
      [] f = "d" -> v \in 1..31
      [] f = "Y" -> v \in 1..9999
      [] f = "H" -> v \in 0..23
      [] f = "M" -> v \in 0..59
      [] f = "S" -> v \in 0..61

Directives == {"m", "d", "Y", "H", "M", "S"}

\* datetime.strptime(s, fmt) from position i of s and item j of fmt; acc
\* collects the fields.  A directive takes a maximal run of digits (every
\* directive of the four formats is followed by a non-digit or the end), a
\* blank of the format takes one or more blanks, any other item itself.
\* The result is [ok |-> FALSE] for ValueError.
RECURSIVE StrptimeFrom(_, _, _, _, _)
StrptimeFrom(s, i, fmt, j, acc) ==
    IF j > Len(fmt)
    THEN IF i = Len(s) + 1 /\ acc.d <= DaysInMonth(acc.Y, acc.m)
         THEN [ok |-> TRUE, date |-> <<acc.Y, acc.m, acc.d>>]
         ELSE [ok |-> FALSE, date |-> NaT]
    ELSE IF fmt[j] \in Directives
    THEN LET e == RunEnd(s, i, Digits)
             v == DigitsValue(s, i, e)
         IN  IF (e - i) \in FieldLens(fmt[j]) /\ FieldOk(fmt[j], v)
             THEN StrptimeFrom(s, e, fmt, j + 1, [acc EXCEPT ![fmt[j]] = v])
             ELSE [ok |-> FALSE, date |-> NaT]
    ELSE IF fmt[j] = " "
    THEN LET e == RunEnd(s, i, {" "})
         IN  IF e > i
             THEN StrptimeFrom(s, e, fmt, j + 1, acc)
             ELSE [ok |-> FALSE, date |-> NaT]
    ELSE IF i <= Len(s) /\ s[i] = fmt[j]
    THEN StrptimeFrom(s, i + 1, fmt, j + 1, acc)
    ELSE [ok |-> FALSE, date |-> NaT]

strptime(s, fmt) ==
    StrptimeFrom(s, 1, fmt, 1, [Y |-> 1900, m |-> 1, d |-> 1, H |-> 0, M |-> 0, S |-> 0])

\* "%m/%d/%Y %H:%M", "%m/%d/%Y", "%Y-%m-%d %H:%M:%S", "%Y-%m-%d"
DateFormats ==
    << <<"m", "/", "d", "/", "Y", " ", "H", ":", "M">>,
       <<"m", "/", "d", "/", "Y">>,
       <<"Y", "-", "m", "-", "d", " ", "H", ":", "M", ":", "S">>,
       <<"Y", "-", "m", "-", "d">> >>

\* pd.to_datetime(cell).date(): the missing cell gives NaT, whose date() is
\* NaT again; a text that is no date raises.  Texts outside the four formats
\* that pandas' generic parser would still read as a date are not among the
\* inputs of this model.
to_datetime_date(cell) ==
    IF cell = CellNaN
    THEN [ok |-> TRUE, date |-> NaT]
    ELSE [ok |-> FALSE, date |-> NaT]

parse_date(date_str) ==
    LET s == Str(date_str)
        hits == {k \in 1..Len(DateFormats) : strptime(s, DateFormats[k]).ok}
    IN  IF hits # {}
        THEN strptime(s, DateFormats[CHOOSE k \in hits : \A o \in hits : k <= o]).date
        ELSE IF to_datetime_date(date_str).ok
             THEN to_datetime_date(date_str).date
             ELSE FallbackDate

\* a table is [ncols, rows]; a row maps the used positions below ncols to
\* cells; a parsed row carries the two appended columns as well
add_parsed_columns(table) ==
    [ncols |-> table.ncols + 2,
     rows |-> [r \in 1..Len(table.rows) |->
                 [cells |-> table.rows[r],
                  TOWERID |-> extract_tower_id(table.rows[r][MANAGED_ELEMENT_NAME]),
                  DATE |-> parse_date(table.rows[r][BEGIN_TIME])]]]

(***************************************************************************)
(* core/data_cleaner.py : DataCleaner.clean_dataframe                      *)
(***************************************************************************)
\* the None that replace("", None) puts into a column of texts
NoneCell == <<"<None>">>

\* the float infinity.  Only the cleaner is modelled on it: no archive of the
\* runs holds a cell that cleans to it
Inf == [t |-> "inf", n |-> 1, d |-> 1]

\* pd.to_numeric(errors="coerce") of a cell that is None or a text: a text of
\* digits is its number, a minus sign before the digits negates it, the text
\* "inf" is the float infinity; None, "" and any other text of the model is NaN
to_numeric(x) ==
    IF x # NoneCell /\ x # <<>> /\ \A k \in 1..Len(x) : x[k] \in Digits
    THEN Rat(DigitsValue(x, 1, Len(x) + 1), 1)
    ELSE IF Len(x) >= 2 /\ x[1] = "-" /\ \A k \in 2..Len(x) : x[k] \in Digits
    THEN Rat(0 - DigitsValue(x, 2, Len(x) + 1), 1)
    ELSE IF x = <<"i", "n", "f">>
    THEN Inf
    ELSE NaN

\* astype(str), the two str.replace, replace("", None), then to_numeric
clean_cell(cell) ==
    LET stripped == RemoveChar(RemoveChar(Str(cell), "%"), ",")
    IN  to_numeric(IF stripped = <<>> THEN NoneCell ELSE stripped)

\* mutant: the text conversion and the two replacements are applied to the
\* whole table, the numeric coercion to the designated columns
clean_dataframe_all_columns(table, cols) ==
    [ncols |-> table.ncols,
     rows |-> [r \in 1..Len(table.rows) |->
                 [c \in DOMAIN table.rows[r] |->
                    IF c \in cols /\ c < table.ncols
                    THEN clean_cell(table.rows[r][c])
                    ELSE RemoveChar(RemoveChar(Str(table.rows[r][c]), "%"), ",")]]]

clean_dataframe(table, cols) ==
    [ncols |-> table.ncols,
     rows |-> [r \in 1..Len(table.rows) |->
                 [c \in DOMAIN table.rows[r] |->
                    IF c \in cols /\ c < table.ncols
                    THEN clean_cell(table.rows[r][c])
                    ELSE table.rows[r][c]]]]

(***************************************************************************)
(* core/data_loader.py : DataLoader.load_from_zip                          *)
(***************************************************************************)
\* a file name is a sequence of name parts, so that endswith is a suffix test
CsvSuffix == <<".csv">>

CounterSuffix == <<"_KPI(Counter)", ".csv">>

\* mutant: the *_KPI(Counter).csv exclusion is forgotten
CsvFilesNoExclusion(zip) ==
    SelectSeq(zip.files, LAMBDA f : EndsWith(f.name, CsvSuffix))

\* the entries of the archive that pass the filter, in namelist order
CsvFiles(zip) ==
    SelectSeq(zip.files,
              LAMBDA f : EndsWith(f.name, CsvSuffix) /\ ~EndsWith(f.name, CounterSuffix))

RECURSIVE ConcatRows(_)
ConcatRows(files) ==
    IF files = <<>> THEN <<>> ELSE Head(files).rows \o ConcatRows(Tail(files))

\* [exc |-> "", df |-> table] on return, [exc |-> name] on raise: ValueError
\* without an eligible file, pandas' EmptyDataError for a file without columns
load_from_zip(zip) ==
    LET csv_files == CsvFiles(zip)
    IN  IF csv_files = <<>>
        THEN [exc |-> "ValueError", df |-> [ncols |-> 0, rows |-> <<>>]]
        ELSE IF zip.ncols = 0
        THEN [exc |-> "EmptyDataError", df |-> [ncols |-> 0, rows |-> <<>>]]
        ELSE [exc |-> "", df |-> [ncols |-> zip.ncols, rows |-> ConcatRows(csv_files)]]

(***************************************************************************)
(* core/kpi_calculator.py : KPICalculator.calculate_kpis                   *)
(***************************************************************************)
RatAdd(a, b) == Rat(a.n * b.d + b.n * a.d, a.d * b.d)

\* mutant: the sum keeps only the last row of the group
ColumnSumLast(group, idx) ==
    IF group = <<>> THEN Rat(0, 1)
    ELSE LET x == group[Len(group)].cells[idx]
         IN  IF x.t = "num" THEN x ELSE Rat(0, 1)

\* mutant: the sum does not skip NaN cells, one missing cell makes it NaN
RECURSIVE ColumnSumPoisoned(_, _)
ColumnSumPoisoned(group, idx) ==
    IF group = <<>> THEN Rat(0, 1)
    ELSE LET x == Head(group).cells[idx]
             rest == ColumnSumPoisoned(Tail(group), idx)
         IN  IF x.t = "num" /\ rest.t = "num" THEN RatAdd(x, rest) ELSE NaN

\* group.iloc[:, idx].sum(): NaN cells are skipped, an all-NaN column sums to 0
RECURSIVE ColumnSum(_, _)
ColumnSum(group, idx) ==
    IF group = <<>> THEN Rat(0, 1)
    ELSE LET x == Head(group).cells[idx]
             rest == ColumnSum(Tail(group), idx)
         IN  IF x.t = "num" THEN RatAdd(x, rest) ELSE rest

\* a position is a cleaned data column of a parsed table of ncols columns when
\* it lies before the two appended columns; iloc on a position at or past
\* ncols raises IndexError, and the sum of an appended column (texts, dates)
\* ends in TypeError
KpiRaises(ncols) == \E idx \in numeric_cols : idx >= ncols - 2

\* mutant: the drop rate is computed from the addition counters
calculate_kpis_wrong_columns(group) ==
    [sgnb_add_success_rate |->
        safe_divide(ColumnSum(group, SN_ADDITION_NUM),
                    ColumnSum(group, SN_ADDITION_DEN), Rat(100, 1)),
     sgnb_drop_rate |->
        safe_divide(ColumnSum(group, SN_ADDITION_NUM),
                    ColumnSum(group, SN_ADDITION_DEN), Rat(100, 1)),
     dl_user_throughput |->
        safe_divide(ColumnSum(group, DL_UE_THROUGHPUT_NUM),
                    ColumnSum(group, DL_UE_THROUGHPUT_DEN), Rat(1, 1)),
     ul_user_throughput |->
        safe_divide(ColumnSum(group, UL_UE_THROUGHPUT_NUM),
                    ColumnSum(group, UL_UE_THROUGHPUT_DEN), Rat(1, 1)),
     dl_spectrum_efficiency |->
        safe_divide(ColumnSum(group, DL_SE_MAPPING_NUM),
                    ColumnSum(group, DL_SE_MAPPING_DEN), Rat(1, 1))]

calculate_kpis(group) ==
    [sgnb_add_success_rate |->
        safe_divide(ColumnSum(group, SN_ADDITION_NUM),
                    ColumnSum(group, SN_ADDITION_DEN), Rat(100, 1)),
     sgnb_drop_rate |->
        safe_divide(ColumnSum(group, ABNORMAL_SN_RELEASE_NUM),
                    ColumnSum(group, ABNORMAL_SN_RELEASE_DEN), Rat(100, 1)),
     dl_user_throughput |->
        safe_divide(ColumnSum(group, DL_UE_THROUGHPUT_NUM),
                    ColumnSum(group, DL_UE_THROUGHPUT_DEN), Rat(1, 1)),
     ul_user_throughput |->
        safe_divide(ColumnSum(group, UL_UE_THROUGHPUT_NUM),
                    ColumnSum(group, UL_UE_THROUGHPUT_DEN), Rat(1, 1)),
     dl_spectrum_efficiency |->
        safe_divide(ColumnSum(group, DL_SE_MAPPING_NUM),
                    ColumnSum(group, DL_SE_MAPPING_DEN), Rat(1, 1))]

(***************************************************************************)
(* gui/main_window.py : ProcessingThread.run, the grouping of step 4       *)
(***************************************************************************)
\* groupby(['TOWERID', 'DATE']): rows whose key holds a missing value (NaT)
\* are dropped, the keys come in sorted order
GroupKeys(parsed) ==
    {<<parsed.rows[r].TOWERID, parsed.rows[r].DATE>> :
        r \in {x \in 1..Len(parsed.rows) : parsed.rows[x].DATE # NaT}}

DateLess(a, b) ==
    \/ a[1] < b[1]
    \/ a[1] = b[1] /\ a[2] < b[2]
    \/ a[1] = b[1] /\ a[2] = b[2] /\ a[3] < b[3]

KeyLess(k1, k2) ==
    \/ StrLess(k1[1], k2[1])
    \/ k1[1] = k2[1] /\ DateLess(k1[2], k2[2])

RECURSIVE SortKeys(_)
SortKeys(keys) ==
    IF keys = {} THEN <<>>
    ELSE LET first == CHOOSE k \in keys : \A o \in keys \ {k} : KeyLess(k, o)
         IN  <<first>> \o SortKeys(keys \ {first})

\* the rows of one group, in table order
GroupOf(parsed, key) ==
    SelectSeq(parsed.rows, LAMBDA row : <<row.TOWERID, row.DATE>> = key)

TowerReportOf(parsed, key) ==
    LET kpi_values == calculate_kpis(GroupOf(parsed, key))
        ev == evaluate_all(kpi_values)
    IN  [tower_id |-> key[1], report_date |-> key[2], kpi_values |-> kpi_values,
         kpi_status |-> ev.status, overall_status |-> ev.overall]

\* the list built by the loop over the groups
ReportsOf(parsed) ==
    LET keys == SortKeys(GroupKeys(parsed))
    IN  [g \in 1..Len(keys) |-> TowerReportOf(parsed, keys[g])]

(***************************************************************************)
(* core/excel_generator.py : ExcelGenerator                                *)
(***************************************************************************)
Blank == [t |-> "blank", n |-> 0, d |-> 1]

\* round(v, 2), half to even; the values of the model are never an inexact tie
Round2(v) ==
    LET x == v.n * 100
        q == x \div v.d
        r == x - q * v.d
        up == 2 * r > v.d \/ (2 * r = v.d /\ q % 2 = 1)
    IN  Rat(IF up THEN q + 1 ELSE q, 100)

\* round(v, 2) if v else "": None and 0.0 are both falsy
ValueCell(v) == IF v.t = "None" \/ (v.t = "num" /\ v.n = 0) THEN Blank ELSE Round2(v)

\* the cell after _format_pass_fail
format_pass_fail(is_pass) ==
    IF is_pass
    THEN [value |-> "PASS", fill |-> "GREEN_FILL"]
    ELSE [value |-> "FAIL", fill |-> "RED_FILL"]

DigitChar(k) == CodePoints[Ord("0") + k]

\* strftime("%m/%d/%Y")
DateText(date) ==
    <<DigitChar(date[2] \div 10), DigitChar(date[2] % 10), "/",
      DigitChar(date[3] \div 10), DigitChar(date[3] % 10), "/",
      DigitChar(date[1] \div 1000), DigitChar((date[1] \div 100) % 10),
      DigitChar((date[1] \div 10) % 10), DigitChar(date[1] % 10)>>

\* one data row of the Summary sheet as saved
SummaryRow(report) ==
    [tower_id |-> report.tower_id,
     date |-> DateText(report.report_date),
     status |-> format_pass_fail(report.overall_status = "PASS"),
     kpi_status |-> [m \in Metrics |-> format_pass_fail(report.kpi_status[m] = "PASS")],
     value |-> [m \in Metrics |-> ValueCell(report.kpi_values[m])]]

\* the workbook create_report saves
create_report(reps) ==
    [exists |-> TRUE, summary |-> [k \in 1..Len(reps) |-> SummaryRow(reps[k])]]

NoFile == [exists |-> FALSE, summary |-> <<>>]

(***************************************************************************)
(* core/template_generator.py : TemplateGenerator.  A sheet is the list of *)
(* its tower blocks from top to bottom; a block is its first row and the   *)
(* cells fill_tower_data writes.  The template sheet holds one block of    *)
(* TEMPLATE_RANGE rows without tower data.                                 *)
(***************************************************************************)
\* TEMPLATE_RANGE['end_row']
end_row == 13

\* the "GAP +6" of create_detailed_report
GAP == 6

\* CELL_MAPPING['kpi_result_start']
kpi_result_start == 9

\* the order of kpi_data in fill_tower_data
MetricOrder ==
    <<"sgnb_add_success_rate", "sgnb_drop_rate", "dl_user_throughput",
      "ul_user_throughput", "dl_spectrum_efficiency">>

\* strftime('%Y-%m-%d')
DateTextISO(date) ==
    <<DigitChar(date[1] \div 1000), DigitChar((date[1] \div 100) % 10),
      DigitChar((date[1] \div 10) % 10), DigitChar(date[1] % 10), "-",
      DigitChar(date[2] \div 10), DigitChar(date[2] % 10), "-",
      DigitChar(date[3] \div 10), DigitChar(date[3] % 10)>>

MonthAbbr ==
    <<"Jan", "Feb", "Mar", "Apr", "May", "Jun", "Jul", "Aug", "Sep", "Oct", "Nov", "Dec">>

\* strftime('%d-%b-%y')
DateTextDMonY(date) ==
    <<DigitChar(date[3] \div 10), DigitChar(date[3] % 10), "-", MonthAbbr[date[2]], "-",
      DigitChar((date[1] \div 10) % 10), DigitChar(date[1] % 10)>>

format_date_sheet_name(dt) == <<"Performance ">> \o DateTextISO(dt)

\* the text "N/A" in a result cell
NACell == [t |-> "N/A", n |-> 0, d |-> 1]

\* the block of the template sheet: no tower, no date, no results
TemplateBlock ==
    [row |-> 1, B1 |-> <<>>, A7 |-> <<>>, B4 |-> <<>>,
     G |-> [m \in Metrics |-> Blank],
     H |-> [m \in Metrics |-> [value |-> "", fill |-> "none", row |-> 0]]]

\* ws.max_row: the last row of the lowest block
max_row(blocks) == blocks[Len(blocks)].row + end_row - 1

\* the block copy_template_block writes at target_row: the cells of the
\* block at row 1 with their styles; a cell without a value is not copied
copy_template_block(blocks, target_row) == [blocks[1] EXCEPT !.row = target_row]

\* the block at start_row after fill_tower_data; the fill of a remark cell
\* changes only for PASS and FAIL
fill_tower_data(block, report) ==
    [block EXCEPT
        !.B1 = report.tower_id,
        !.A7 = report.tower_id,
        !.B4 = DateTextDMonY(report.report_date),
        !.G = [m \in Metrics |->
                 IF report.kpi_values[m] # None
                 THEN Round2(report.kpi_values[m]) ELSE NACell],
        !.H = [m \in Metrics |->
                 [value |-> report.kpi_status[m],
                  fill |-> IF report.kpi_status[m] = "PASS" THEN "GREEN_FILL"
                           ELSE IF report.kpi_status[m] = "FAIL" THEN "RED_FILL"
                           ELSE block.H[m].fill,
                  row |-> block.row + kpi_result_start - 1
                          + (CHOOSE i \in 1..Len(MetricOrder) : MetricOrder[i] = m) - 1]]]

RECURSIVE SortDates(_)
SortDates(dates) ==
    IF dates = {} THEN <<>>
    ELSE LET first == CHOOSE x \in dates : \A o \in dates \ {x} : DateLess(x, o)
         IN  <<first>> \o SortDates(dates \ {first})

\* the dict of group_reports_by_date: its keys, and the list under a key
group_reports_by_date(reps) ==
    [dt \in {reps[k].report_date : k \in 1..Len(reps)} |->
        SelectSeq(reps, LAMBDA report : report.report_date = dt)]

\* the loop over the towers of one date, from tower_idx on (lines 189-204)
RECURSIVE FillTowers(_, _, _)
FillTowers(blocks, date_reports, tower_idx) ==
    IF tower_idx > Len(date_reports) THEN blocks
    ELSE IF tower_idx = 1
    THEN FillTowers([blocks EXCEPT ![1] = fill_tower_data(blocks[1], date_reports[1])],
                    date_reports, 2)
    ELSE LET current_row == max_row(blocks) + GAP
             copied == copy_template_block(blocks, current_row)
         IN  FillTowers(Append(blocks, fill_tower_data(copied, date_reports[tower_idx])),
                        date_reports, tower_idx + 1)

\* the loop over the dates, from date_idx on (lines 178-204): the first date
\* is written into the template sheet itself, every later date into a copy
\* of the first sheet of the workbook as it is by then
RECURSIVE DateSheets(_, _, _, _)
DateSheets(date_groups, dates, date_idx, sheets) ==
    IF date_idx > Len(dates) THEN sheets
    ELSE LET ws == IF date_idx = 1 THEN <<TemplateBlock>> ELSE sheets[1].blocks
             filled == FillTowers(ws, date_groups[dates[date_idx]], 1)
         IN  DateSheets(date_groups, dates, date_idx + 1,
                        Append(sheets, [title |-> format_date_sheet_name(dates[date_idx]),
                                        blocks |-> filled]))

\* one data row of the Summary sheet of the detailed report
DetailedSummaryRow(report) ==
    [SummaryRow(report) EXCEPT !.date = DateTextISO(report.report_date)]

\* the workbook create_detailed_report saves: the date sheets in order and
\* the Summary sheet.  Without reports the template sheet stays as it is.
create_detailed_report(reps) ==
    LET date_groups == group_reports_by_date(reps)
        dates == SortDates(DOMAIN date_groups)
    IN  [exists |-> TRUE,
         sheets |-> IF dates = <<>>
                    THEN <<[title |-> <<"template">>, blocks |-> <<TemplateBlock>>]>>
                    ELSE DateSheets(date_groups, dates, 1, <<>>),
         summary |-> [k \in 1..Len(reps) |-> DetailedSummaryRow(reps[k])]]

(***************************************************************************)
(* gui/main_window.py : ProcessingThread.run, step by step.  An exception  *)
(* raised by a step goes to the except clause, which emits the error       *)
(* signal and ends the run.                                                *)
(***************************************************************************)
Signal(sig, msg, total, pass, fail) ==
    [sig |-> sig, msg |-> msg, total |-> total, pass |-> pass, fail |-> fail]

Progress(msg, n) == Signal("progress", msg, n, 0, 0)

ErrorSignal(exc) == Signal("error", exc, 0, 0, 0)

EmptyTable == [ncols |-> 0, rows |-> <<>>]

\* mutant: the exception ends the thread without a signal
RaiseSilent(exc, emitted) ==
    /\ pc' = "error"
    /\ events' = events \o emitted

Raise(exc, emitted) ==
    /\ pc' = "error"
    /\ events' = events \o emitted \o <<ErrorSignal(exc)>>

\* lines 51-53
Load ==
    /\ pc = "load"
    /\ LET r == load_from_zip(archive)
       IN  IF r.exc # ""
           THEN /\ Raise(r.exc, <<Progress("Loading CSV files from ZIP", 0)>>)
                /\ UNCHANGED df
           ELSE /\ df' = r.df
                /\ pc' = "clean"
                /\ events' = events \o <<Progress("Loading CSV files from ZIP", 0),
                                         Progress("Loaded records", Len(r.df.rows))>>
    /\ UNCHANGED <<archive, df_clean, df_parsed, reports, output_file, hvars, window>>

\* lines 56-65
Clean ==
    /\ pc = "clean"
    /\ df_clean' = clean_dataframe(df, numeric_cols)
    /\ pc' = "parse"
    /\ events' = events \o <<Progress("Cleaning numeric columns", 0),
                             Progress("Data cleaning completed", 0)>>
    /\ UNCHANGED <<archive, df, df_parsed, reports, output_file, hvars, window>>

\* lines 68-70; iloc[:, MANAGED_ELEMENT_NAME] raises IndexError on a table
\* that has no such column
Parse ==
    /\ pc = "parse"
    /\ IF df_clean.ncols <= MANAGED_ELEMENT_NAME
       THEN /\ Raise("IndexError", <<Progress("Parsing TOWERID and dates", 0)>>)
            /\ UNCHANGED df_parsed
       ELSE /\ df_parsed' = add_parsed_columns(df_clean)
            /\ pc' = "group"
            /\ events' = events \o <<Progress("Parsing TOWERID and dates", 0),
                                     Progress("TOWERID and DATE columns added", 0)>>
    /\ UNCHANGED <<archive, df, df_clean, reports, output_file, hvars, window>>

\* mutant: the step hands over after the first group
GroupEvalFirstOnly ==
    /\ pc = "group"
    /\ IF GroupKeys(df_parsed) # {} /\ KpiRaises(df_parsed.ncols)
       THEN /\ Raise(IF UL_UE_THROUGHPUT_DEN >= df_parsed.ncols
                     THEN "IndexError" ELSE "TypeError",
                     <<Progress("Calculating KPIs", 0)>>)
            /\ UNCHANGED reports
       ELSE LET every == ReportsOf(df_parsed)
                reps == IF Len(every) > 1 THEN <<every[1]>> ELSE every
            IN  /\ reports' = reps
                /\ pc' = "render"
                /\ events' = events \o <<Progress("Calculating KPIs", 0),
                                         Progress("Processed tower-date combinations",
                                                  Len(reps))>>
    /\ UNCHANGED <<archive, df, df_clean, df_parsed, output_file, hvars, window>>

\* lines 73-87; calculate_kpis raises in the first group when a position it
\* reads is no data column
GroupEval ==
    /\ pc = "group"
    /\ IF GroupKeys(df_parsed) # {} /\ KpiRaises(df_parsed.ncols)
       THEN /\ Raise(IF UL_UE_THROUGHPUT_DEN >= df_parsed.ncols
                     THEN "IndexError" ELSE "TypeError",
                     <<Progress("Calculating KPIs", 0)>>)
            /\ UNCHANGED reports
       ELSE LET reps == ReportsOf(df_parsed)
            IN  /\ reports' = reps
                /\ pc' = "render"
                /\ events' = events \o <<Progress("Calculating KPIs", 0),
                                         Progress("Processed tower-date combinations",
                                                  Len(reps))>>
    /\ UNCHANGED <<archive, df, df_clean, df_parsed, output_file, hvars, window>>

\* mutant: the file is created before the failure is noticed
RenderPartial ==
    /\ pc = "render"
    /\ \/ /\ output_file' = create_report(reports)
          /\ pc' = "stats"
          /\ events' = events \o <<Progress("Generating Excel report", 0),
                                   Progress("Excel report generated successfully", 0)>>
       \/ /\ Raise("OSError", <<Progress("Generating Excel report", 0)>>)
          /\ output_file' = [exists |-> TRUE, summary |-> <<>>]
    /\ UNCHANGED <<archive, df, df_clean, df_parsed, reports, hvars, window>>

\* lines 90-92; wb.save is the last statement of create_report: it writes the
\* file, or the output path cannot be opened and nothing is written
Render ==
    /\ pc = "render"
    /\ \/ /\ output_file' = create_report(reports)
          /\ pc' = "stats"
          /\ events' = events \o <<Progress("Generating Excel report", 0),
                                   Progress("Excel report generated successfully", 0)>>
       \/ /\ Raise("OSError", <<Progress("Generating Excel report", 0)>>)
          /\ UNCHANGED output_file
    /\ UNCHANGED <<archive, df, df_clean, df_parsed, reports, hvars, window>>

\* mutant: a report is counted for a status that any of its metrics has
CountStatusAnyMetric(reps, st) ==
    Cardinality({k \in 1..Len(reps) : \E m \in Metrics : reps[k].kpi_status[m] = st})

\* sum(1 for r in reports if r.overall_status == st)
CountStatus(reps, st) == Cardinality({k \in 1..Len(reps) : reps[k].overall_status = st})

\* lines 95-104
Finish ==
    /\ pc = "stats"
    /\ events' = events \o <<Signal("finished", "", Len(reports),
                                    CountStatus(reports, "PASS"),
                                    CountStatus(reports, "FAIL"))>>
    /\ pc' = "finished"
    /\ UNCHANGED <<archive, df, df_clean, df_parsed, reports, output_file, hvars, window>>

Next == Load \/ Clean \/ Parse \/ GroupEval \/ Render \/ Finish

\* the window after MainWindow.__init__ and init_ui: no file chosen, Browse
\* enabled, Start disabled, no thread.  processing_thread is the serial
\* number of the thread object it refers to (0 for None), handled the number
\* of the thread's signals whose slot has run, log_lines the length of the
\* log area
init_ui ==
    [zip_path |-> "", browse_btn |-> TRUE, start_btn |-> FALSE,
     processing_thread |-> 0, handled |-> 0, log_lines |-> 0]

\* the harness is idle while the pipeline runs, and the other way round
HarnessIdle == fn = "none" /\ args = None /\ ret = None

PipelineIdle ==
    /\ window = init_ui
    /\ pc = "idle"
    /\ archive = [files |-> <<>>, ncols |-> 0]
    /\ df = EmptyTable
    /\ df_clean = EmptyTable
    /\ df_parsed = EmptyTable
    /\ reports = <<>>
    /\ output_file = NoFile
    /\ events = <<>>

\* the state when run() is entered for the archive a
InitRun(a) ==
    /\ HarnessIdle
    /\ window = init_ui
    /\ pc = "load"
    /\ archive = a
    /\ df = EmptyTable
    /\ df_clean = EmptyTable
    /\ df_parsed = EmptyTable
    /\ reports = <<>>
    /\ output_file = NoFile
    /\ events = <<>>

(***************************************************************************)
(* The archives the runs are checked on                                    *)
(***************************************************************************)
MaxFiles == 2

MaxFileRows == 1

MaxAggRows == 2

SeqsUpTo(S, n) == UNION {[1..k -> S] : k \in 0..n}

\* "1/6/2026 0:00", "2026-01-07", a text that is no date
TimeMDY == <<"1", "/", "6", "/", "2", "0", "2", "6", " ", "0", ":", "0", "0">>

TimeYMD == <<"2", "0", "2", "6", "-", "0", "1", "-", "0", "7">>

TimeBad == <<"x">>

\* "NR_SU-S-A-11_DU", "SU-S-B-2", a name without an identifier
NameA == <<"N", "R", "_", "S", "U", "-", "S", "-", "A", "-", "1", "1", "_", "D", "U">>

NameB == <<"S", "U", "-", "S", "-", "B", "-", "2">>

NameBad == <<"n", "r", "-", "1">>

\* the two positions of a metric in the column layout
PairOf(m) ==
    CASE m = "sgnb_add_success_rate" -> <<SN_ADDITION_NUM, SN_ADDITION_DEN>>
      [] m = "sgnb_drop_rate" -> <<ABNORMAL_SN_RELEASE_NUM, ABNORMAL_SN_RELEASE_DEN>>
      [] m = "dl_user_throughput" -> <<DL_UE_THROUGHPUT_NUM, DL_UE_THROUGHPUT_DEN>>
      [] m = "ul_user_throughput" -> <<UL_UE_THROUGHPUT_NUM, UL_UE_THROUGHPUT_DEN>>
      [] m = "dl_spectrum_efficiency" -> <<DL_SE_MAPPING_NUM, DL_SE_MAPPING_DEN>>

\* a CSV row with the counters of metric m filled in and the other counter
\* fields empty
RawRow(time, name, m, ncell, dcell) ==
    [c \in UsedCols |->
        IF c = BEGIN_TIME THEN time
        ELSE IF c = MANAGED_ELEMENT_NAME THEN name
        ELSE IF c = PairOf(m)[1] THEN ncell
        ELSE IF c = PairOf(m)[2] THEN dcell
        ELSE CellNaN]

\* the row as it is in a file of ncols columns
RestrictRow(row, ncols) == [c \in ColsOf(ncols) |-> row[c]]

\* the rows of the run-level archives: a clean row, a row with a malformed
\* numerator and an unparseable date, a row with a zero denominator, no
\* identifier and no date
RunRows ==
    {RawRow(TimeMDY, NameA, "sgnb_add_success_rate", <<"1">>, <<"1">>),
     RawRow(TimeBad, NameA, "sgnb_add_success_rate", <<"x">>, <<"1">>),
     RawRow(CellNaN, NameBad, "sgnb_drop_rate", <<"1">>, <<"0">>)}

CounterRow == RawRow(TimeMDY, NameB, "sgnb_add_success_rate", <<"1">>, <<"1">>)

\* "data.csv", "X_KPI(Counter).csv", "notes.txt"
FileNames == {<<"data", ".csv">>, <<"X", "_KPI(Counter)", ".csv">>, <<"notes", ".txt">>}

\* column counts: a file without columns, without the element-name column,
\* without the counter columns, and the full layout
Layouts == {0, 5, 10, 123}

FilesOf(ncols) ==
    {[name |-> <<"data", ".csv">>, rows |-> rs] :
        rs \in IF ncols = 0 THEN {<<>>}
               ELSE SeqsUpTo({RestrictRow(r, ncols) : r \in RunRows}, MaxFileRows)}
    \cup {[name |-> <<"X", "_KPI(Counter)", ".csv">>,
           rows |-> IF ncols = 0 THEN <<>> ELSE <<RestrictRow(CounterRow, ncols)>>],
          [name |-> <<"notes", ".txt">>, rows |-> <<>>]}

Init ==
    \E k \in Layouts, n \in 0..MaxFiles :
        \E fs \in [1..n -> FilesOf(k)] : InitRun([files |-> fs, ncols |-> k])

Spec == Init /\ [][Next]_vars

\* the steps of run() that have not returned or raised yet
Running == {"load", "clean", "parse", "group", "render", "stats"}

\* the thread goes on to another step.  Every step of Next is such a step,
\* and one is possible in every state in which run() has not ended.
Advance == pc \in Running /\ pc' \in Running \cup {"finished", "error"} /\ pc' # pc

\* a started thread is scheduled until run() returns, and every step of run
\* is a loop over finite data
SpecLive == Init /\ [][Next]_vars /\ WF_pc(Advance)

\* the archives of the aggregation runs: one eligible file of the full
\* layout, every row carrying the counters of one metric as a
\* <<numerator cell, denominator cell>> pair
AggCells ==
    {<<(<<"x">>), (<<"x">>)>>, <<(<<"x">>), (<<"1">>)>>, <<(<<"1">>), (<<"x">>)>>,
     <<(<<"1">>), (<<"1">>)>>, <<(<<"5", "%">>), (<<"1">>)>>}

AggKeyCells == {<<TimeMDY, NameA>>, <<TimeYMD, NameB>>}

AggRows(m) ==
    {RawRow(k[1], k[2], m, c[1], c[2]) : k \in AggKeyCells, c \in AggCells}

InitAgg ==
    \E m \in Metrics, n \in 0..MaxAggRows :
        \E rs \in [1..n -> AggRows(m)] :
            InitRun([files |-> <<[name |-> <<"data", ".csv">>, rows |-> rs]>>, ncols |-> 123])

SpecAgg == InitAgg /\ [][Next]_vars

(***************************************************************************)
(* Harness for the pure functions: Init draws the arguments, one action    *)
(* per function applies it.                                                *)
(***************************************************************************)
MaxNum == 4

MaxDen == 3

\* finite floats of the bounded range
Floats == {Rat(n, d) : n \in (-1)..MaxNum, d \in 1..MaxDen}

\* float arguments: None, NaN and the finite floats
FloatArgs == {None, NaN} \cup Floats

Scales == {Rat(1, 1), Rat(100, 1)}

Compares == {">=", "<=", "==", ">"}

\* KPI values around every threshold of KPIThreshold, and the missing value
EvalValues ==
    {None, Rat(0, 1), Rat(9, 10), Rat(15, 10), Rat(5, 1), Rat(95, 1), Rat(100, 1)}

InitDivide ==
    /\ PipelineIdle
    /\ fn = "safe_divide"
    /\ args \in [num : FloatArgs, den : FloatArgs, multiply : Scales]
    /\ ret = None

CallSafeDivide ==
    /\ fn = "safe_divide"
    /\ ret' = safe_divide(args.num, args.den, args.multiply)
    /\ fn' = "returned:safe_divide"
    /\ UNCHANGED <<args, pvars>>

NextDivide == CallSafeDivide

SpecDivide == InitDivide /\ [][NextDivide]_vars

InitEval ==
    /\ PipelineIdle
    /\ ret = None
    /\ \/ /\ fn = "evaluate_kpi"
          /\ args \in [value : FloatArgs, threshold : Floats, compare : Compares]
       \/ /\ fn = "evaluate_all"
          /\ args \in [Metrics -> EvalValues]

CallEvaluateKpi ==
    /\ fn = "evaluate_kpi"
    /\ ret' = evaluate_kpi(args.value, args.threshold, args.compare)
    /\ fn' = "returned:evaluate_kpi"
    /\ UNCHANGED <<args, pvars>>

CallEvaluateAll ==
    /\ fn = "evaluate_all"
    /\ ret' = evaluate_all(args)
    /\ fn' = "returned:evaluate_all"
    /\ UNCHANGED <<args, pvars>>

NextEval == CallEvaluateKpi \/ CallEvaluateAll

SpecEval == InitEval /\ [][NextEval]_vars

\* two calls of evaluate_all, on KPIValues whose fields are missing, below
\* every minimum (0.5) or above every threshold (100)
PairValues == {None, Rat(1, 2), Rat(100, 1)}

InitEvalPair ==
    /\ PipelineIdle
    /\ ret = None
    /\ fn = "evaluate_all:pair"
    /\ args \in [first : [Metrics -> PairValues], second : [Metrics -> PairValues]]

CallEvaluateAllPair ==
    /\ fn = "evaluate_all:pair"
    /\ ret' = [first |-> evaluate_all(args.first), second |-> evaluate_all(args.second)]
    /\ fn' = "returned:evaluate_all:pair"
    /\ UNCHANGED <<args, pvars>>

NextEvalPair == CallEvaluateAllPair

SpecEvalPair == InitEvalPair /\ [][NextEvalPair]_vars

(***************************************************************************)
(* The archives of the scenario runs: one eligible file of the full        *)
(* layout whose rows carry the SN_ADDITION and the ABNORMAL_SN_RELEASE     *)
(* counters, the other counter fields all zero or all empty.               *)
(***************************************************************************)
MaxScenarioRows == 2

\* "NR_SUM-SU-AKR-0011_DU"
NameSUM ==
    <<"N", "R", "_", "S", "U", "M", "-", "S", "U", "-", "A", "K", "R", "-",
      "0", "0", "1", "1", "_", "D", "U">>

ScenarioRow(time, name, add, drop, other) ==
    [c \in UsedCols |->
        IF c = BEGIN_TIME THEN time
        ELSE IF c = MANAGED_ELEMENT_NAME THEN name
        ELSE IF c = SN_ADDITION_NUM THEN add[1]
        ELSE IF c = SN_ADDITION_DEN THEN add[2]
        ELSE IF c = ABNORMAL_SN_RELEASE_NUM THEN drop[1]
        ELSE IF c = ABNORMAL_SN_RELEASE_DEN THEN drop[2]
        ELSE other]

\* <<numerator cell, denominator cell>>: 100/100 and 1/0 for the additions,
\* 1/100 and 100/100 for the releases
ScenarioAdds == {<<(<<"1", "0", "0">>), (<<"1", "0", "0">>)>>, <<(<<"1">>), (<<"0">>)>>}

ScenarioDrops == {<<(<<"1">>), (<<"1", "0", "0">>)>>, <<(<<"1", "0", "0">>), (<<"1", "0", "0">>)>>}

ScenarioRows ==
    {ScenarioRow(TimeMDY, name, add, drop, other) :
        name \in {NameSUM, NameBad}, add \in ScenarioAdds, drop \in ScenarioDrops,
        other \in {CellNaN, <<"0">>}}

InitScenario ==
    \E n \in 0..MaxScenarioRows :
        \E rs \in [1..n -> ScenarioRows] :
            InitRun([files |-> <<[name |-> <<"data", ".csv">>, rows |-> rs]>>, ncols |-> 123])

SpecScenario == InitScenario /\ [][Next]_vars

(***************************************************************************)
(* The archives of the missing-cell runs: one eligible file of the full    *)
(* layout, one site and one day, every row carrying the counters of one    *)
(* metric; a counter field is empty, zero, positive or negative.           *)
(***************************************************************************)
MaxMissingRows == 2

MissingNums == {CellNaN, <<"2">>}

MissingDens == {CellNaN, <<"0">>, <<"1">>, <<"-", "1">>}

MissingRows(m) ==
    {RawRow(TimeMDY, NameA, m, ncell, dcell) : ncell \in MissingNums, dcell \in MissingDens}

InitMissing ==
    \E m \in Metrics, n \in 0..MaxMissingRows :
        \E rs \in [1..n -> MissingRows(m)] :
            InitRun([files |-> <<[name |-> <<"data", ".csv">>, rows |-> rs]>>, ncols |-> 123])

SpecMissing == InitMissing /\ [][Next]_vars

(***************************************************************************)
(* Harness for the parser and the cleaner: Init draws the argument, one    *)
(* action per function applies it.                                         *)
(***************************************************************************)
MaxNameLen == 8

MaxCellLen == 3

\* element names: every text of up to MaxNameLen characters over NameChars,
\* identifier-shaped names with lower-case letters, the names of the runs,
\* the sentinel, a name with two identifiers, the empty field
NameChars == {"A", "-", "1"}

NamesLower ==
    {<<"a", "-", "a", "-", "a", "-", "1">>, <<"A", "-", "a", "-", "A", "-", "1">>,
     <<"a", "A", "-", "A", "-", "A", "-", "1">>, <<"A", "a", "-", "A", "-", "A", "-", "1">>,
     <<"a", "A", "A", "-", "A", "-", "A", "-", "1", "a">>}

NameTwoIds ==
    <<"x", "A", "B", "-", "C", "-", "D", "-", "1", "2", "_", "E", "-", "F", "-", "G", "-", "3">>

NameTexts ==
    SeqsUpTo(NameChars, MaxNameLen)
       \cup NamesLower
       \cup {NameA, NameB, NameBad, NameSUM, NameTwoIds, UNKNOWN, CellNaN}

\* begin times: month/day/year and year-month-day texts with and without a
\* clock, among them days that no month has; a text that is no date; the
\* empty field.  Each either fits one of the four formats or is no date
\* under any reading.
DateMonths == {<<"1">>, <<"2">>, <<"1", "2">>}

DateDays == {<<"6">>, <<"2", "9">>, <<"3", "0">>}

DateYears == {<<"2", "0", "2", "6">>, <<"2", "0", "2", "4">>}

ClocksMDY == {<<>>, <<" ", "0", ":", "0", "0">>, <<" ", "2", "3", ":", "5", "9">>}

ClocksYMD ==
    {<<>>, <<" ", "0", "0", ":", "0", "0", ":", "0", "0">>,
     <<" ", "2", "3", ":", "5", "9", ":", "5", "9">>}

DateTexts ==
    {m \o <<"/">> \o d \o <<"/">> \o y \o c :
        m \in DateMonths, d \in DateDays, y \in DateYears, c \in ClocksMDY}
       \cup {y \o <<"-">> \o m \o <<"-">> \o d \o c :
                m \in DateMonths, d \in DateDays, y \in DateYears, c \in ClocksYMD}
       \cup {TimeMDY, TimeYMD, TimeBad, UNKNOWN, CellNaN}

\* cells of a designated column: every text of up to MaxCellLen characters
\* over CellChars, the text "inf", the empty field
CellChars == {"0", "1", "%", ",", "a"}

CellTexts == SeqsUpTo(CellChars, MaxCellLen) \cup {<<"i", "n", "f">>, CellNaN}

\* tables of one row, its begin time filled or empty: without a designated
\* column, with the first one only, with all of them
CleanLayouts == {10, 22, 123}

CleanTables ==
    {[ncols |-> k,
      rows |-> <<RestrictRow(RawRow(t, NameA, "sgnb_add_success_rate", c, <<"1", "%">>), k)>>] :
        k \in CleanLayouts, c \in CellTexts, t \in {TimeMDY, CellNaN}}

InitText ==
    /\ PipelineIdle
    /\ ret = None
    /\ \/ fn = "parse_date" /\ args \in DateTexts
       \/ fn = "extract_tower_id" /\ args \in NameTexts
       \/ fn = "clean_dataframe" /\ args \in CleanTables

CallParseDate ==
    /\ fn = "parse_date"
    /\ ret' = parse_date(args)
    /\ fn' = "returned:parse_date"
    /\ UNCHANGED <<args, pvars>>

CallExtractTowerId ==
    /\ fn = "extract_tower_id"
    /\ ret' = extract_tower_id(args)
    /\ fn' = "returned:extract_tower_id"
    /\ UNCHANGED <<args, pvars>>

\* the function applied to its own result
CallExtractTowerIdAgain ==
    /\ fn = "returned:extract_tower_id"
    /\ ret' = [first |-> ret, second |-> extract_tower_id(ret)]
    /\ fn' = "returned:extract_tower_id:twice"
    /\ UNCHANGED <<args, pvars>>

\* the caller's table stays in args, the returned table is ret
CallCleanDataframe ==
    /\ fn = "clean_dataframe"
    /\ ret' = clean_dataframe(args, numeric_cols)
    /\ fn' = "returned:clean_dataframe"
    /\ UNCHANGED <<args, pvars>>

NextText ==
    CallParseDate \/ CallExtractTowerId \/ CallExtractTowerIdAgain \/ CallCleanDataframe

SpecText == InitText /\ [][NextText]_vars

\* extract_tower_id on its own and inside the scenario runs
InitTowerId ==
    \/ PipelineIdle /\ ret = None /\ fn = "extract_tower_id" /\ args \in NameTexts
    \/ InitScenario

NextTowerId == CallExtractTowerId \/ CallExtractTowerIdAgain \/ Next

SpecTowerId == InitTowerId /\ [][NextTowerId]_vars

(***************************************************************************)
(* Harness for the two report writers: Init draws a list of Tower Reports  *)
(* as run() builds it, sorted by key and one per key.                      *)
(***************************************************************************)
MaxSheetReports == 3

SheetKeys ==
    {<<site, dt>> : site \in {extract_tower_id(NameA), extract_tower_id(NameB)},
                    dt \in {<<2026, 1, 6>>, <<2026, 1, 7>>}}

\* KPIValues: every metric passing (99.567, 0.5, 10, 2, 1); no addition rate
\* and a drop rate of exactly 0; two failing rates and no throughput
SheetValues ==
    {[sgnb_add_success_rate |-> Rat(99567, 1000), sgnb_drop_rate |-> Rat(1, 2),
      dl_user_throughput |-> Rat(10, 1), ul_user_throughput |-> Rat(2, 1),
      dl_spectrum_efficiency |-> Rat(1, 1)],
     [sgnb_add_success_rate |-> None, sgnb_drop_rate |-> Rat(0, 1),
      dl_user_throughput |-> Rat(10, 1), ul_user_throughput |-> Rat(2, 1),
      dl_spectrum_efficiency |-> Rat(1, 1)],
     [sgnb_add_success_rate |-> Rat(50, 1), sgnb_drop_rate |-> Rat(100, 1),
      dl_user_throughput |-> None, ul_user_throughput |-> None,
      dl_spectrum_efficiency |-> None]}

\* the report list over the keys K with the values val[key]
SheetReports(K, val) ==
    LET keys == SortKeys(K)
    IN  [g \in 1..Len(keys) |->
            LET ev == evaluate_all(val[keys[g]])
            IN  [tower_id |-> keys[g][1], report_date |-> keys[g][2],
                 kpi_values |-> val[keys[g]],
                 kpi_status |-> ev.status, overall_status |-> ev.overall]]

InitSheet ==
    /\ PipelineIdle
    /\ ret = None
    /\ fn \in {"create_report", "create_detailed_report"}
    /\ \E K \in SUBSET SheetKeys :
          /\ Cardinality(K) <= MaxSheetReports
          /\ \E val \in [K -> SheetValues] : args = SheetReports(K, val)

CallCreateReport ==
    /\ fn = "create_report"
    /\ ret' = create_report(args)
    /\ fn' = "returned:create_report"
    /\ UNCHANGED <<args, pvars>>

CallCreateDetailedReport ==
    /\ fn = "create_detailed_report"
    /\ ret' = create_detailed_report(args)
    /\ fn' = "returned:create_detailed_report"
    /\ UNCHANGED <<args, pvars>>

NextSheet == CallCreateReport \/ CallCreateDetailedReport

SpecSheet == InitSheet /\ [][NextSheet]_vars

(***************************************************************************)
(* gui/main_window.py : MainWindow.  The slots run on the main thread; the *)
(* signals of the thread reach them through the event queue, in the order  *)
(* of emission.  A button emits clicked only while it is enabled, and the  *)
(* file dialogs are modal.                                                 *)
(***************************************************************************)
MaxRuns == 2

MaxLogLines == 16

\* the ZIP files the user can pick: one without an eligible CSV file, one
\* with a single clean row
ZipPaths == {"notes.zip", "data.zip"}

ArchiveAt(path) ==
    IF path = "data.zip"
    THEN [files |-> <<[name |-> <<"data", ".csv">>,
                       rows |-> <<RawRow(TimeMDY, NameA, "sgnb_add_success_rate",
                                         <<"1">>, <<"1">>)>>]>>,
          ncols |-> 123]
    ELSE [files |-> <<[name |-> <<"notes", ".txt">>, rows |-> <<>>]>>, ncols |-> 123]

\* lines 204-218; getOpenFileName returns "" when the dialog is cancelled
browse_file ==
    /\ window.browse_btn
    /\ window.log_lines < MaxLogLines
    /\ \E file_path \in ZipPaths \cup {""} :
          window' = IF file_path # ""
                    THEN [window EXCEPT !.zip_path = file_path,
                                        !.start_btn = TRUE,
                                        !.log_lines = @ + 1]
                    ELSE window
    /\ UNCHANGED <<hvars, pc, archive, df, df_clean, df_parsed, reports, output_file, events>>

\* mutant: the Start button is left enabled
start_processing_start_left_enabled ==
    /\ window.start_btn
    /\ window.processing_thread < MaxRuns
    /\ \E output_path \in {"", "report.xlsx"} :
          IF window.zip_path = "" \/ output_path = ""
          THEN UNCHANGED vars
          ELSE /\ window' = [window EXCEPT !.browse_btn = FALSE,
                                           !.log_lines = 0,
                                           !.processing_thread = @ + 1,
                                           !.handled = 0]
               /\ pc' = "load"
               /\ archive' = ArchiveAt(window.zip_path)
               /\ df' = EmptyTable
               /\ df_clean' = EmptyTable
               /\ df_parsed' = EmptyTable
               /\ reports' = <<>>
               /\ output_file' = NoFile
               /\ events' = <<>>
               /\ UNCHANGED hvars

\* lines 220-254; getSaveFileName returns "" when the dialog is cancelled.
\* The new ProcessingThread starts with fresh locals and has emitted nothing.
start_processing ==
    /\ window.start_btn
    /\ window.processing_thread < MaxRuns
    /\ \E output_path \in {"", "report.xlsx"} :
          IF window.zip_path = "" \/ output_path = ""
          THEN UNCHANGED vars
          ELSE /\ window' = [window EXCEPT !.browse_btn = FALSE,
                                           !.start_btn = FALSE,
                                           !.log_lines = 0,
                                           !.processing_thread = @ + 1,
                                           !.handled = 0]
               /\ pc' = "load"
               /\ archive' = ArchiveAt(window.zip_path)
               /\ df' = EmptyTable
               /\ df_clean' = EmptyTable
               /\ df_parsed' = EmptyTable
               /\ reports' = <<>>
               /\ output_file' = NoFile
               /\ events' = <<>>
               /\ UNCHANGED hvars

\* the next signal of the thread waiting in the event queue
Pending(sig) ==
    /\ window.processing_thread > 0
    /\ window.handled < Len(events)
    /\ events[window.handled + 1].sig = sig

\* lines 256-258, as the slot of progress
log ==
    /\ Pending("progress")
    /\ window' = [window EXCEPT !.handled = @ + 1, !.log_lines = @ + 1]
    /\ UNCHANGED <<hvars, pc, archive, df, df_clean, df_parsed, reports, output_file, events>>

\* lines 260-278; three lines are logged after the message box
on_finished ==
    /\ Pending("finished")
    /\ window' = [window EXCEPT !.handled = @ + 1,
                                !.browse_btn = TRUE,
                                !.start_btn = TRUE,
                                !.log_lines = @ + 3]
    /\ UNCHANGED <<hvars, pc, archive, df, df_clean, df_parsed, reports, output_file, events>>

\* lines 280-291; four lines are logged after the message box
on_error ==
    /\ Pending("error")
    /\ window' = [window EXCEPT !.handled = @ + 1,
                                !.browse_btn = TRUE,
                                !.start_btn = TRUE,
                                !.log_lines = @ + 4]
    /\ UNCHANGED <<hvars, pc, archive, df, df_clean, df_parsed, reports, output_file, events>>

InitGui == HarnessIdle /\ PipelineIdle

NextGui == browse_file \/ start_processing \/ log \/ on_finished \/ on_error \/ Next

SpecGui == InitGui /\ [][NextGui]_vars

(***************************************************************************)
(* Claims                                                                  *)
(***************************************************************************)
\* the call has a missing or NaN operand, or a zero denominator
C1_MissingCase ==
    \/ args.num.t # "num"
    \/ args.den.t # "num"
    \/ args.den.n = 0

\* C1: safe_divide returns None if and only if den is 0 or num or den is
\* missing/NaN; in every other case the result r is a number with
\* r = (num / den) * multiply, stated by cross-multiplication.
C1_SafeDivide ==
    fn = "returned:safe_divide" =>
        /\ (ret = None) <=> C1_MissingCase
        /\ ~C1_MissingCase =>
              /\ ret.t = "num"
              /\ ret.d > 0
              /\ ret.n * args.num.d * args.den.n * args.multiply.d
                    = ret.d * args.num.n * args.den.d * args.multiply.n

\* C1 witness: 3 / 2 * 100 has been computed as 150
C1_Witness ==
    /\ fn = "returned:safe_divide"
    /\ args.num = Rat(3, 1)
    /\ args.den = Rat(2, 1)
    /\ args.multiply = Rat(100, 1)
    /\ ret = Rat(150, 1)

C3_EvaluateKpi ==
    fn = "returned:evaluate_kpi" =>
        ret = IF args.value = None
              THEN "N/A"
              ELSE IF \/ args.compare = ">=" /\ Ge(args.value, args.threshold)
                      \/ args.compare = "<=" /\ Le(args.value, args.threshold)
                   THEN "PASS"
                   ELSE "FAIL"

\* C4: inclusive, monotone boundary: for ">=" a value equal to or above the
\* threshold is PASS and a value below it FAIL; for "<=" a value equal to or
\* below the threshold is PASS and a value above it FAIL.
C4_Monotone ==
    (fn = "returned:evaluate_kpi" /\ args.value.t = "num") =>
        LET v == args.value
            th == args.threshold
            below == v.n * th.d < th.n * v.d
            above == v.n * th.d > th.n * v.d
        IN  /\ args.compare = ">=" =>
                /\ v = th => ret = "PASS"
                /\ above => ret = "PASS"
                /\ below => ret = "FAIL"
            /\ args.compare = "<=" =>
                /\ v = th => ret = "PASS"
                /\ below => ret = "PASS"
                /\ above => ret = "FAIL"

\* C4 witness: a ">=" evaluation exactly at the threshold returned PASS
C4_Witness ==
    /\ fn = "returned:evaluate_kpi"
    /\ args.compare = ">="
    /\ args.value = args.threshold
    /\ ret = "PASS"

\* the verdict of v against the threshold tn/td in direction dir
C5_Verdict(v, tn, td, dir) ==
    IF v = None
    THEN "N/A"
    ELSE IF dir = ">="
         THEN (IF v.n * td >= tn * v.d THEN "PASS" ELSE "FAIL")
         ELSE (IF v.n * td <= tn * v.d THEN "PASS" ELSE "FAIL")

\* C5: each KPIStatus field is the verdict of the KPIValues field of the same
\* name against its own threshold: add success rate >= 95.0, drop rate <= 5.0,
\* DL throughput >= 5.0, UL throughput >= 1.5, DL spectrum efficiency >= 0.9.
C5_Thresholds ==
    fn = "returned:evaluate_all" =>
        /\ ret.status.sgnb_add_success_rate
              = C5_Verdict(args.sgnb_add_success_rate, 95, 1, ">=")
        /\ ret.status.sgnb_drop_rate
              = C5_Verdict(args.sgnb_drop_rate, 5, 1, "<=")
        /\ ret.status.dl_user_throughput
              = C5_Verdict(args.dl_user_throughput, 5, 1, ">=")
        /\ ret.status.ul_user_throughput
              = C5_Verdict(args.ul_user_throughput, 3, 2, ">=")
        /\ ret.status.dl_spectrum_efficiency
              = C5_Verdict(args.dl_spectrum_efficiency, 9, 10, ">=")

\* C5 witness: UL throughput exactly 1.5 passed while DL throughput 1.5 failed
C5_Witness ==
    /\ fn = "returned:evaluate_all"
    /\ args.ul_user_throughput = Rat(3, 2)
    /\ args.dl_user_throughput = Rat(3, 2)
    /\ ret.status.ul_user_throughput = "PASS"
    /\ ret.status.dl_user_throughput = "FAIL"

\* the archive has no entry, or only entries ending with _KPI(Counter).csv
C6_NoEligibleFile ==
    \A i \in 1..Len(archive.files) : EndsWith(archive.files[i].name, CounterSuffix)

\* C6: with no entry at all, or only entries whose name ends with
\* "_KPI(Counter).csv", load_from_zip raises and the run ends with the error
\* signal: nothing was loaded, cleaned, parsed, computed or written, and no
\* progress beyond the loading message was signalled.
C6_IngestionError ==
    C6_NoEligibleFile =>
        /\ pc \in {"load", "error"}
        /\ df = EmptyTable /\ df_clean = EmptyTable /\ df_parsed = EmptyTable
        /\ reports = <<>>
        /\ output_file = NoFile
        /\ pc = "error" =>
              /\ events[Len(events)] = ErrorSignal("ValueError")
              /\ \A k \in 1..(Len(events) - 1) :
                    events[k] = Progress("Loading CSV files from ZIP", 0)

\* C6 witness: an archive holding only X_KPI(Counter).csv has ended in error
C6_Witness ==
    /\ Len(archive.files) = 1
    /\ archive.files[1].name = <<"X", "_KPI(Counter)", ".csv">>
    /\ archive.files[1].rows # <<>>
    /\ pc = "error"

\* the archive has an entry ending with .csv and not with _KPI(Counter).csv
C7_HasEligibleFile ==
    \E i \in 1..Len(archive.files) :
        /\ EndsWith(archive.files[i].name, CsvSuffix)
        /\ ~EndsWith(archive.files[i].name, CounterSuffix)

\* C7: with at least one eligible file in the archive the run never ends with
\* the error signal, whatever the rows and the column layout are.  Stated for
\* the layouts that have both key columns, and a failure to write the output
\* path is not counted against the archive.
C7_OnlyIngestionHalts ==
    (C7_HasEligibleFile /\ archive.ncols > MANAGED_ELEMENT_NAME /\ pc = "error")
        => events[Len(events)] = ErrorSignal("OSError")

RowOrders(n) ==
    {f \in [1..n -> 1..n] : \A i, j \in 1..n : i # j => f[i] # f[j]}

\* the parsed frame the run derives from the input rows in another order
C9_ParsedOf(rows) ==
    add_parsed_columns(clean_dataframe([ncols |-> df.ncols, rows |-> rows], numeric_cols))

\* C9: when the grouping has completed, for every permutation of the input
\* rows the grouping yields the same group keys, the same per-group numerator
\* and denominator sums and the same reports (keys, KPI values, statuses,
\* overall).
C9_OrderIndependent ==
    pc = "render" =>
        \A f \in RowOrders(Len(df.rows)) :
            LET shuffled == C9_ParsedOf([i \in 1..Len(df.rows) |-> df.rows[f[i]]])
            IN  /\ GroupKeys(shuffled) = GroupKeys(df_parsed)
                /\ \A key \in GroupKeys(df_parsed) : \A idx \in numeric_cols :
                      ColumnSum(GroupOf(shuffled, key), idx)
                         = ColumnSum(GroupOf(df_parsed, key), idx)
                /\ ReportsOf(shuffled) = reports

\* C9 witness: two different rows of one group were summed into a value
C9_Witness ==
    /\ pc = "render"
    /\ Len(df.rows) = 2
    /\ df.rows[1] # df.rows[2]
    /\ Len(reports) = 1
    /\ reports[1].kpi_values.dl_user_throughput = Rat(3, 1)

\* every cell of column idx in the group was coerced to missing
C10_AllMissing(group, idx) ==
    \A k \in 1..Len(group) : group[k].cells[idx] = NaN

\* C10: in a group where every cell of a metric's numerator column, or every
\* cell of its denominator column, was coerced to missing by the cleaner, the
\* metric's KPI value is missing and its status is N/A.
C10_MalformedIsNA ==
    pc \in {"render", "stats", "finished"} =>
        \A g \in 1..Len(reports) : \A m \in Metrics :
            LET group == GroupOf(df_parsed, <<reports[g].tower_id, reports[g].report_date>>)
            IN  (C10_AllMissing(group, PairOf(m)[1]) \/ C10_AllMissing(group, PairOf(m)[2]))
                   => /\ reports[g].kpi_values[m] = None
                      /\ reports[g].kpi_status[m] = "N/A"

\* the sum of the denominator column of metric m over the group of report g
C11_SumDen(g, m) ==
    ColumnSum(GroupOf(df_parsed, <<reports[g].tower_id, reports[g].report_date>>),
              PairOf(m)[2])

C12_IsCalendarDate(d) ==
    /\ d[1] \in 1..9999
    /\ d[2] \in 1..12
    /\ d[3] \in 1..DaysInMonth(d[1], d[2])

\* C12: parse_date returns a calendar date for every input, the empty field
\* included, and the fallback date 2026-01-01 for an input that fits none of
\* the four formats and that the generic parse cannot turn into a date.
C12_ParseDateTotal ==
    fn = "returned:parse_date" =>
        /\ C12_IsCalendarDate(ret)
        /\ ( /\ \A k \in 1..Len(DateFormats) : ~strptime(Str(args), DateFormats[k]).ok
             /\ ~to_datetime_date(args).ok ) => ret = <<2026, 1, 1>>

\* t is uppercase letters, dash, uppercase letters, dash, uppercase letters,
\* dash, digits, every run non-empty
C13_IsId(t) ==
    LET dashes == {k \in 1..Len(t) : t[k] = "-"}
    IN  /\ Cardinality(dashes) = 3
        /\ LET a == CHOOSE k \in dashes : \A o \in dashes : k <= o
               c == CHOOSE k \in dashes : \A o \in dashes : k >= o
               b == CHOOSE k \in dashes : k # a /\ k # c
           IN  /\ a > 1 /\ b > a + 1 /\ c > b + 1 /\ c < Len(t)
               /\ \A k \in (1..(c - 1)) \ dashes : t[k] \in Upper
               /\ \A k \in (c + 1)..Len(t) : t[k] \in Digits

\* the substrings of s that are identifiers, as <<first, last>> positions
C13_Matches(s) ==
    {m \in (1..Len(s)) \X (1..Len(s)) : m[1] <= m[2] /\ C13_IsId(SubSeq(s, m[1], m[2]))}

\* the result for the text s: the leftmost identifier, taken as far as it
\* goes, or the sentinel
C13_FirstMatch(s, result) ==
    IF C13_Matches(s) = {}
    THEN result = UNKNOWN
    ELSE \E m \in C13_Matches(s) :
            /\ result = SubSeq(s, m[1], m[2])
            /\ \A o \in C13_Matches(s) : m[1] < o[1] \/ (m[1] = o[1] /\ m[2] >= o[2])

C14_Idempotent ==
    fn = "returned:extract_tower_id:twice" => ret.second = ret.first

\* C14 witness: both extractions of "NR_SU-S-A-11_DU" gave "SU-S-A-11"
C14_Witness ==
    /\ fn = "returned:extract_tower_id:twice"
    /\ args = NameA
    /\ ret.first = <<"S", "U", "-", "S", "-", "A", "-", "1", "1">>
    /\ ret.second = ret.first

\* the archive is the scenario: two rows for "NR_SUM-SU-AKR-0011_DU" at
\* "1/6/2026 0:00" with 100/100 additions and 1/100 releases, the other
\* counter fields zero or empty
C15_ScenarioInput ==
    /\ Len(archive.files) = 1
    /\ Len(archive.files[1].rows) = 2
    /\ \A r \in 1..2 :
          LET row == archive.files[1].rows[r]
          IN  /\ row[MANAGED_ELEMENT_NAME] = NameSUM
              /\ row[BEGIN_TIME] = <<"1", "/", "6", "/", "2", "0", "2", "6", " ", "0", ":", "0", "0">>
              /\ row[SN_ADDITION_NUM] = <<"1", "0", "0">>
              /\ row[SN_ADDITION_DEN] = <<"1", "0", "0">>
              /\ row[ABNORMAL_SN_RELEASE_NUM] = <<"1">>
              /\ row[ABNORMAL_SN_RELEASE_DEN] = <<"1", "0", "0">>

C16_ParsedKeysNonNull ==
    (archive.ncols > UL_UE_THROUGHPUT_DEN /\ pc \in {"group", "render", "stats", "finished"}) =>
        /\ Len(df_parsed.rows) = Len(df.rows)
        /\ \A r \in 1..Len(df_parsed.rows) :
              /\ df_parsed.rows[r].TOWERID # <<>>
              /\ df_parsed.rows[r].TOWERID # CellNaN
              /\ df_parsed.rows[r].DATE # NaT

\* the <<site_id, report_date>> pairs of the parsed records
C17_ParsedKeys ==
    {<<df_parsed.rows[r].TOWERID, df_parsed.rows[r].DATE>> : r \in 1..Len(df_parsed.rows)}

\* C17: there is exactly one report per <<site_id, report_date>> pair of the
\* parsed records: no two reports share a key, and every pair has a report.
\* Stated for the runs on the full column layout.
C17_OneReportPerKey ==
    (archive.ncols > UL_UE_THROUGHPUT_DEN /\ pc \in {"render", "stats", "finished"}) =>
        /\ \A g, h \in 1..Len(reports) :
              (reports[g].tower_id = reports[h].tower_id
                 /\ reports[g].report_date = reports[h].report_date) => g = h
        /\ {<<reports[g].tower_id, reports[g].report_date>> : g \in 1..Len(reports)}
              = C17_ParsedKeys

\* the returned table has the shape of the caller's table and the same cell
\* in every column that is not designated
C18_SameOutsideDesignated(caller, returned) ==
    /\ returned.ncols = caller.ncols
    /\ Len(returned.rows) = Len(caller.rows)
    /\ \A r \in 1..Len(caller.rows) :
          /\ DOMAIN returned.rows[r] = DOMAIN caller.rows[r]
          /\ \A c \in DOMAIN caller.rows[r] :
                c \notin numeric_cols => returned.rows[r][c] = caller.rows[r][c]

\* C18: a call of clean_dataframe leaves the caller's table as it was and
\* returns a table that differs from it in designated columns only.
C18_Frame ==
    [][(fn = "clean_dataframe" /\ fn' = "returned:clean_dataframe")
          => (args' = args /\ C18_SameOutsideDesignated(args, ret'))]_vars

\* C18 witness: the call returned a table whose designated cell "1%" became
\* the number 1, next to the caller's table still holding "1%"
C18_Witness ==
    /\ fn = "returned:clean_dataframe"
    /\ args.ncols = 123
    /\ args.rows[1][SN_ADDITION_NUM] = <<"1", "%">>
    /\ ret.rows[1][SN_ADDITION_NUM] = Rat(1, 1)
    /\ ret.rows[1][BEGIN_TIME] = args.rows[1][BEGIN_TIME]

\* the text of a cell without its "%" and "," decorations
C19_Undecorated(cell) == SelectSeq(cell, LAMBDA ch : ch \notin {"%", ","})

\* C19: after clean_dataframe every cell of a designated column is a finite
\* number or the missing marker: digits with "%" and "," decorations become
\* their number, empty cells and cells that cannot be coerced become missing.
C19_NumberOrMissing ==
    fn = "returned:clean_dataframe" =>
        \A c \in numeric_cols \cap DOMAIN args.rows[1] :
            LET raw == args.rows[1][c]
                core == C19_Undecorated(raw)
                x == ret.rows[1][c]
            IN  /\ x.t \in {"num", "nan"}
                /\ (raw # CellNaN /\ core # <<>> /\ \A k \in 1..Len(core) : core[k] \in Digits)
                      => x = Rat(DigitsValue(core, 1, Len(core) + 1), 1)
                /\ (raw = CellNaN \/ core = <<>>) => x = NaN

\* the last signal of the run
C20_Last == events[Len(events)]

\* C20: on a completed run the finished signal carries total = number of
\* reports, pass = number of reports with overall PASS, fail = number with
\* overall FAIL, and pass + fail = total.
C20_FinishedCounts ==
    pc = "finished" =>
        /\ C20_Last.sig = "finished"
        /\ C20_Last.total = Len(reports)
        /\ C20_Last.pass = Cardinality({g \in 1..Len(reports) : reports[g].overall_status = "PASS"})
        /\ C20_Last.fail = Cardinality({g \in 1..Len(reports) : reports[g].overall_status = "FAIL"})
        /\ C20_Last.pass + C20_Last.fail = C20_Last.total

\* C20 witness: a run finished with two reports, one PASS and one FAIL
C20_Witness ==
    /\ pc = "finished"
    /\ C20_Last.total = 2
    /\ C20_Last.pass = 1
    /\ C20_Last.fail = 1

(***************************************************************************)
(* C21                                                                     *)
(***************************************************************************)
\* the rows of a group whose cell at position idx is a number
C21_NonMissing(g, idx) == {r \in 1..Len(g) : g[r].cells[idx].t = "num"}

\* the sum of the cells at position idx over the rows S of a group
RECURSIVE C21_SumOver(_, _, _)
C21_SumOver(g, idx, S) ==
    IF S = {} THEN Rat(0, 1)
    ELSE LET r == CHOOSE x \in S : TRUE
         IN  RatAdd(g[r].cells[idx], C21_SumOver(g, idx, S \ {r}))

C21_Scale(m) ==
    IF m \in {"sgnb_add_success_rate", "sgnb_drop_rate"} THEN Rat(100, 1) ELSE Rat(1, 1)

\* the value of metric m of a report is the quotient of the sums of the
\* non-missing numerator and denominator cells of its group
C21_SumsSkipMissing(g, m, value) ==
    value = safe_divide(C21_SumOver(g, PairOf(m)[1], C21_NonMissing(g, PairOf(m)[1])),
                        C21_SumOver(g, PairOf(m)[2], C21_NonMissing(g, PairOf(m)[2])),
                        C21_Scale(m))

\* some row of the group has a valid non-zero denominator for metric m
C21_SomeValidDen(g, m) ==
    \E r \in C21_NonMissing(g, PairOf(m)[2]) : g[r].cells[PairOf(m)[2]].n # 0

C22_NoCrossMetricDependency ==
    fn = "returned:evaluate_all:pair" =>
        \A m \in Metrics :
            args.first[m] = args.second[m] => ret.first.status[m] = ret.second.status[m]

\* two KPIValues that agree on the drop rate only, differ in every other
\* status and in the overall status
C22_Witness ==
    /\ fn = "returned:evaluate_all:pair"
    /\ args.first.sgnb_drop_rate = args.second.sgnb_drop_rate
    /\ \A m \in Metrics \ {"sgnb_drop_rate"} :
          /\ args.first[m] # args.second[m]
          /\ ret.first.status[m] # ret.second.status[m]
    /\ ret.first.overall # ret.second.overall

(***************************************************************************)
(* C23                                                                     *)
(***************************************************************************)
\* the begin-time cell is in none of the four date formats
C23_Unparsed(cell) ==
    \A k \in 1..Len(DateFormats) : ~strptime(Str(cell), DateFormats[k]).ok

\* C23: every record whose begin-time cannot be parsed gets the fallback
\* date and is aggregated into the one group keyed (site_id, fallback date)
\* of its site, and no run is aborted for its dates.  Stated for the runs
\* on the full column layout.
C23_UnparsedJoinFallbackGroup ==
    archive.ncols > UL_UE_THROUGHPUT_DEN =>
        /\ pc = "error" => events[Len(events)].msg \in {"ValueError", "OSError"}
        /\ pc \in {"render", "stats", "finished"} =>
              \A r \in 1..Len(df_parsed.rows) :
                  C23_Unparsed(df.rows[r][BEGIN_TIME]) =>
                      /\ df_parsed.rows[r].DATE = FallbackDate
                      /\ Cardinality({k \in 1..Len(reports) :
                              /\ reports[k].tower_id = df_parsed.rows[r].TOWERID
                              /\ reports[k].report_date = FallbackDate}) = 1

(***************************************************************************)
(* C24                                                                     *)
(***************************************************************************)
\* the progress messages of a complete run, in the order of the stages
C24_Messages ==
    <<"Loading CSV files from ZIP", "Loaded records",
      "Cleaning numeric columns", "Data cleaning completed",
      "Parsing TOWERID and dates", "TOWERID and DATE columns added",
      "Calculating KPIs", "Processed tower-date combinations",
      "Generating Excel report", "Excel report generated successfully">>

C24_ProgressOf(evs) == SelectSeq(evs, LAMBDA e : e.sig = "progress")

\* C24: the stages run in the order load, clean, parse, group-and-evaluate,
\* render; when a stage is about to start, the previous stage has produced
\* its complete output and no later stage has produced anything, and the
\* report is written only after every group has its Tower Report
C24_StagesInOrder ==
    /\ LET prog == C24_ProgressOf(events)
       IN  /\ Len(prog) <= Len(C24_Messages)
           /\ \A i \in 1..Len(prog) : prog[i].msg = C24_Messages[i]
    /\ pc = "load" => df = EmptyTable
    /\ pc = "clean" => df = load_from_zip(archive).df
    /\ pc \in {"load", "clean"} => df_clean = EmptyTable
    /\ pc = "parse" => df_clean = clean_dataframe(df, numeric_cols)
    /\ pc \in {"load", "clean", "parse"} => df_parsed = EmptyTable
    /\ pc = "group" => df_parsed = add_parsed_columns(df_clean)
    /\ pc \in {"load", "clean", "parse", "group"} => reports = <<>>
    /\ pc = "render" =>
          /\ Len(reports) = Cardinality(GroupKeys(df_parsed))
          /\ \A key \in GroupKeys(df_parsed) :
                \E k \in 1..Len(reports) : reports[k] = TowerReportOf(df_parsed, key)
    /\ pc \in {"load", "clean", "parse", "group", "render"} => output_file = NoFile
    /\ output_file.exists =>
          /\ pc \in {"stats", "finished"}
          /\ Len(output_file.summary) = Cardinality(GroupKeys(df_parsed))

\* a run over two groups has gone through every stage
C24_Witness ==
    /\ pc = "finished"
    /\ Cardinality(GroupKeys(df_parsed)) = 2
    /\ Len(output_file.summary) = 2
    /\ Len(C24_ProgressOf(events)) = Len(C24_Messages)

(***************************************************************************)
(* C25                                                                     *)
(***************************************************************************)
\* the finished and error events among the events emitted so far
C25_Terminals(evs) == SelectSeq(evs, LAMBDA e : e.sig \in {"finished", "error"})

\* C25: every started run eventually has emitted exactly one terminal
\* event, finished or error; it never emits a second one and never a
\* progress event after it; a run ended by an exception has emitted the
\* error event
C25_OneTerminalEvent ==
    /\ <>[](Len(C25_Terminals(events)) = 1)
    /\ [](/\ Len(C25_Terminals(events)) <= 1
          /\ Len(C25_Terminals(events)) = 1 =>
                events[Len(events)].sig \in {"finished", "error"}
          /\ pc = "error" => events[Len(events)].sig = "error"
          /\ pc = "finished" => events[Len(events)].sig = "finished")

\* a run whose parse step raised has emitted the error event and nothing else
\* after the progress events
C25_Witness ==
    /\ pc = "error"
    /\ Len(events) = 6
    /\ events[6] = ErrorSignal("IndexError")
    /\ Len(C25_Terminals(events)) = 1

(***************************************************************************)
(* C26                                                                     *)
(***************************************************************************)
\* a worker has been launched and its finished or error event has not been
\* handled yet
C26_WorkerLive ==
    /\ window.processing_thread > 0
    /\ ~(pc \in {"finished", "error"} /\ window.handled = Len(events))

\* C26: while a launched worker's terminal event has not been handled, the
\* Start and Browse controls are disabled, no other worker is launched and
\* the input file is not changed; once the finished or error event has been
\* handled both controls are enabled
C26_OneWorkerAtATime ==
    /\ [](C26_WorkerLive => (~window.browse_btn /\ ~window.start_btn))
    /\ []((window.processing_thread > 0 /\ ~C26_WorkerLive) =>
            (window.browse_btn /\ window.start_btn))
    /\ [][C26_WorkerLive =>
            /\ window'.processing_thread = window.processing_thread
            /\ window'.zip_path = window.zip_path]_vars

\* the second worker is halfway through its run, a signal of its waits in
\* the event queue, and both controls are disabled
C26_Witness ==
    /\ window.processing_thread = 2
    /\ window.zip_path = "data.zip"
    /\ pc = "parse"
    /\ window.handled < Len(events)
    /\ ~window.browse_btn
    /\ ~window.start_btn

(***************************************************************************)
(* C27                                                                     *)
(***************************************************************************)
\* the reports whose group holds the parsed record r
C27_ReportsOfRow(r) ==
    {k \in 1..Len(reports) :
        /\ reports[k].tower_id = df_parsed.rows[r].TOWERID
        /\ reports[k].report_date = df_parsed.rows[r].DATE}

RECURSIVE C27_SumOfSizes(_)
C27_SumOfSizes(k) ==
    IF k = 0 THEN 0
    ELSE Len(GroupOf(df_parsed, <<reports[k].tower_id, reports[k].report_date>>))
            + C27_SumOfSizes(k - 1)

\* C27: the groups partition the loaded rows: every loaded row is in the
\* group of exactly one Tower Report and the group sizes add up to the
\* number of loaded rows.  Stated for the runs on the full column layout.
C27_GroupsPartitionLoadedRows ==
    (archive.ncols > UL_UE_THROUGHPUT_DEN /\ pc \in {"render", "stats", "finished"}) =>
        /\ Len(df_parsed.rows) = Len(df.rows)
        /\ \A r \in 1..Len(df_parsed.rows) : Cardinality(C27_ReportsOfRow(r)) = 1
        /\ C27_SumOfSizes(Len(reports)) = Len(df.rows)

(***************************************************************************)
(* C28                                                                     *)
(***************************************************************************)
\* C28: in the Summary sheet of either writer the text of every metric's
\* status cell is the KPI Status evaluate_all computed for it (PASS, FAIL or
\* N/A), so a row whose overall status cell is PASS shows FAIL in no
\* per-metric status cell
C28_SummaryShowsVerdicts ==
    fn \in {"returned:create_report", "returned:create_detailed_report"} =>
        \A k \in 1..Len(args) :
            /\ ret.summary[k].status.value = args[k].overall_status
            /\ \A m \in Metrics :
                  /\ ret.summary[k].kpi_status[m].value = args[k].kpi_status[m]
                  /\ ret.summary[k].status.value = "PASS" =>
                        ret.summary[k].kpi_status[m].value # "FAIL"

(***************************************************************************)
(* C29                                                                     *)
(***************************************************************************)
\* the cell holds the number v rounded to two decimals
C29_IsRounded(cell, v) ==
    /\ cell.t = "num"
    /\ 100 % cell.d = 0
    /\ 200 * Abs(cell.n * v.d - v.n * cell.d) <= cell.d * v.d

\* C29: in the Summary sheet of either writer a metric's value cell is
\* blank exactly when the metric's KPI value is missing; every computed
\* value, a value of exactly 0 included, is written as the number rounded
\* to two decimals
C29_BlankIffMissing ==
    fn \in {"returned:create_report", "returned:create_detailed_report"} =>
        \A k \in 1..Len(args) : \A m \in Metrics :
            /\ ret.summary[k].value[m] = Blank <=> args[k].kpi_values[m] = None
            /\ args[k].kpi_values[m] # None =>
                  C29_IsRounded(ret.summary[k].value[m], args[k].kpi_values[m])

(***************************************************************************)
(* C30                                                                     *)
(***************************************************************************)
\* the reports of the list whose report_date is dt
C30_ReportsOn(reps, dt) == {k \in 1..Len(reps) : reps[k].report_date = dt}

\* C30: the sheet created for a date holds exactly one tower block per
\* Tower Report of that date and no other block: no block filled for a
\* tower of another date is on it
C30_BlocksOfTheDateOnly ==
    (fn = "returned:create_detailed_report" /\ args # <<>>) =>
        LET dates == SortDates({args[k].report_date : k \in 1..Len(args)})
        IN  /\ Len(ret.sheets) = Len(dates)
            /\ \A i \in 1..Len(dates) :
                  LET sheet == ret.sheets[i]
                      on == C30_ReportsOn(args, dates[i])
                  IN  /\ sheet.title = format_date_sheet_name(dates[i])
                      /\ Len(sheet.blocks) = Cardinality(on)
                      /\ \A b \in 1..Len(sheet.blocks) :
                            sheet.blocks[b].B4 = DateTextDMonY(dates[i])
                      /\ \A k \in on :
                            Cardinality({b \in 1..Len(sheet.blocks) :
                                sheet.blocks[b].B1 = args[k].tower_id}) = 1

====
